---- MODULE Spec2Model ----
(***************************************************************************)
(* Model of the Aurora member Q&A backend: user detection, index build,    *)
(* retrieval/ranking (src/retriever.py) and the process lifecycle          *)
(* (src/main.py, src/utils.py).                                            *)
(*                                                                         *)
(* Python strings are sequences of one-character tokens.  The embedding    *)
(* model and the vector store are external services; they are modelled by  *)
(* their interface: encode is a deterministic function of the text into a  *)
(* one-dimensional embedding space, and a query returns the n nearest      *)
(* stored entries (optionally restricted by a metadata equality filter),   *)
(* nearest first, ties in an order the store chooses.                      *)
(***************************************************************************)
EXTENDS Integers, Sequences, FiniteSets, TLC

VARIABLES
    store,        \* the persistent Chroma collection: set of indexed entries
    dirFiles,     \* chroma_store directory exists and holds at least one file
    phase,        \* process lifecycle: "off", "imported", "ready", "failed"
    messages,     \* main.messages (global cache)
    user_names,   \* main.user_names (global cache)
    cache,        \* data_cache.pkl: whether the file exists, and the pickled list
    call          \* the last completed operation with its inputs and its outcome

vars == <<store, dirFiles, phase, messages, user_names, cache, call>>

\* ------------------------------------------------------------------------
\* Bounds of the model
\* ------------------------------------------------------------------------
\* longest question given to detect_user_name
MaxQLen == 3
\* longest list of known names given to detect_user_name
MaxNames == 2
\* number of messages the message source can hold
PoolSize == 13
\* largest batch_size given to build_index when it is called on its own
MaxBatch == 3
\* largest top_k given to retrieve_relevant_messages when it is called on its own
MaxTopK == 5
\* latest wall-clock reading of a timestamp handed to parse_timestamp on its own
MaxTime == 4

\* ------------------------------------------------------------------------
\* Python values
\* ------------------------------------------------------------------------
\* Python None (distinct from every string, the empty string included)
None == <<"None">>

\* a test of user_name that never finds a detected user
Truthy_Never(s) == FALSE

\* truthiness of an optional string: None and "" are falsy
Truthy(s) == s # None /\ s # <<>>

\* the element of a one-element set.  {F(v) : v \in {e}} evaluates e once and
\* binds its value, where LET would re-evaluate e at every use
TheOne(S) == CHOOSE x \in S : TRUE

Max(a, b) == IF a >= b THEN a ELSE b
Min(a, b) == IF a <= b THEN a ELSE b

\* ------------------------------------------------------------------------
\* Characters
\* ------------------------------------------------------------------------
LowerLetters == {"a", "b", "t"}
UpperLetters == {"A", "B"}
Digits == {"0", "1", "2", "3", "4", "5", "6", "7", "8", "9"}

\* str.lower() on one character
LowerChar(c) == CASE c = "A" -> "a" [] c = "B" -> "b" [] OTHER -> c

\* str.lower()
Lower(s) == [i \in 1..Len(s) |-> LowerChar(s[i])]

\* the class [a-zA-Z0-9+ '] kept by normalize_text
IsKept(c) == c \in LowerLetters \cup UpperLetters \cup Digits \cup {"+", " ", "'"}

\* \w of the regex engine on the characters that survive normalization
IsWordChar(c) == c \in LowerLetters \cup UpperLetters \cup Digits \cup {"_"}

\* unicodedata.normalize("NFKD", .): an accented letter decomposes into the
\* base letter followed by a combining mark
RECURSIVE NFKD(_)
NFKD(s) ==
    IF s = <<>> THEN <<>>
    ELSE (IF Head(s) = "a_acute" THEN <<"a", "comb_acute">> ELSE <<Head(s)>>)
         \o NFKD(Tail(s))

\* .replace of the curly and backtick quotes by the straight apostrophe
ReplaceQuotes(s) ==
    [i \in 1..Len(s) |-> IF s[i] \in {"rsquo", "lsquo", "backtick"} THEN "'" ELSE s[i]]

RECURSIVE DropNotKept(_)
DropNotKept(s) ==
    IF s # <<>> /\ ~IsKept(Head(s)) THEN DropNotKept(Tail(s)) ELSE s

\* re.sub(r"[^a-zA-Z0-9+ ']+", " ", text): each maximal run becomes one space
RECURSIVE SubNotKept(_)
SubNotKept(s) ==
    IF s = <<>> THEN <<>>
    ELSE IF IsKept(Head(s)) THEN <<Head(s)>> \o SubNotKept(Tail(s))
    ELSE <<" ">> \o SubNotKept(DropNotKept(Tail(s)))

RECURSIVE LStrip(_)
LStrip(s) == IF s # <<>> /\ Head(s) = " " THEN LStrip(Tail(s)) ELSE s

RECURSIVE RStrip(_)
RStrip(s) ==
    IF s # <<>> /\ s[Len(s)] = " " THEN RStrip(SubSeq(s, 1, Len(s) - 1)) ELSE s

\* str.strip()
Strip(s) == RStrip(LStrip(s))

normalize_text(text) == Strip(Lower(SubNotKept(ReplaceQuotes(NFKD(text)))))

RECURSIVE TakeWord(_)
TakeWord(s) ==
    IF s = <<>> \/ Head(s) = " " THEN <<>> ELSE <<Head(s)>> \o TakeWord(Tail(s))

\* str.split(): the whitespace-separated tokens, no empty token
RECURSIVE Split(_)
Split(s) ==
    LET t == LStrip(s) IN
    IF t = <<>> THEN <<>>
    ELSE LET w == TakeWord(t) IN <<w>> \o Split(SubSeq(t, Len(w) + 1, Len(t)))

\* needle in hay (Python's substring test)
Contains(needle, hay) ==
    \E i \in 1..(Len(hay) - Len(needle) + 1) :
        SubSeq(hay, i, i + Len(needle) - 1) = needle

\* \b between positions p-1 and p of s
Boundary(s, p) ==
    LET w(k) == k \in 1..Len(s) /\ IsWordChar(s[k]) IN w(p - 1) # w(p)

\* re.match of a pattern built from a name token against the whole of str.
\* The token is interpolated unescaped; of the characters normalize_text keeps,
\* "+" is the one regex metacharacter: it repeats the character before it one
\* or more times.  (A token that starts with "+" or holds "++" is not a
\* well-formed pattern in every Python version and is not drawn as an input.)
RECURSIVE RegexMatch(_, _)
RegexMatch(pat, str) ==
    IF pat = <<>> THEN str = <<>>
    ELSE IF Len(pat) >= 2 /\ pat[2] = "+"
    THEN \E k \in 1..Len(str) :
            /\ \A m \in 1..k : str[m] = pat[1]
            /\ RegexMatch(SubSeq(pat, 3, Len(pat)), SubSeq(str, k + 1, Len(str)))
    ELSE str # <<>> /\ Head(str) = Head(pat) /\ RegexMatch(Tail(pat), Tail(str))

\* re.search(rf"\b{part}\b", s)
WordSearch(part, s) ==
    \E i \in 1..(Len(s) + 1) : \E j \in i..(Len(s) + 1) :
        /\ Boundary(s, i)
        /\ Boundary(s, j)
        /\ RegexMatch(part, SubSeq(s, i, j - 1))

\* ------------------------------------------------------------------------
\* rapidfuzz.fuzz.partial_ratio.  A score is the fraction <<n, d>> standing
\* for the float 100 * n / d, so that ties and the threshold are exact.
\* ------------------------------------------------------------------------
RECURSIVE LCS(_, _)
LCS(a, b) ==
    IF a = <<>> \/ b = <<>> THEN 0
    ELSE IF Head(a) = Head(b) THEN 1 + LCS(Tail(a), Tail(b))
    ELSE Max(LCS(Tail(a), b), LCS(a, Tail(b)))

\* Indel normalized similarity 2 * LCS / (len a + len b)
IndelSim(a, b) ==
    IF Len(a) + Len(b) = 0 THEN <<1, 1>> ELSE <<2 * LCS(a, b), Len(a) + Len(b)>>

FracGT(x, y) == x[1] * y[2] > y[1] * x[2]
FracEQ(x, y) == x[1] * y[2] = y[1] * x[2]

\* the alignments of the shorter string s1 inside s2 that are scored: the
\* prefixes shorter than s1, every window of len(s1), the suffixes up to len(s1)
Windows(s1, s2) ==
    {SubSeq(s2, 1, i) : i \in 1..(Len(s1) - 1)}
    \cup {SubSeq(s2, i + 1, i + Len(s1)) : i \in 0..(Len(s2) - Len(s1) - 1)}
    \cup {SubSeq(s2, i + 1, Len(s2)) : i \in (Len(s2) - Len(s1))..(Len(s2) - 1)}

PartialRatioImpl(s1, s2) ==
    LET scores == {IndelSim(s1, w) : w \in Windows(s1, s2)} \cup {<<0, 1>>}
    IN  CHOOSE f \in scores : \A g \in scores : ~FracGT(g, f)

partial_ratio(s1, s2) ==
    IF s1 = <<>> \/ s2 = <<>>
    THEN (IF s1 = s2 THEN <<1, 1>> ELSE <<0, 1>>)
    ELSE LET shorter == IF Len(s1) <= Len(s2) THEN s1 ELSE s2
             longer  == IF Len(s1) <= Len(s2) THEN s2 ELSE s1
             res     == PartialRatioImpl(shorter, longer)
             res2    == PartialRatioImpl(longer, shorter)
         IN  IF ~FracEQ(res, <<1, 1>>) /\ Len(s1) = Len(s2) /\ FracGT(res2, res)
             THEN res2 ELSE res

\* ------------------------------------------------------------------------
\* detect_user_name
\* ------------------------------------------------------------------------
\* best_score >= 70
PassesThreshold(score) == 100 * score[1] >= 70 * score[2]

\* one iteration of the literal loop: the full-name substring test, then the
\* whole-word test of each token of the normalized name
LiteralHit(u, question) ==
    \/ Contains(Lower(u), Lower(question))
    \/ LET u_parts == Split(normalize_text(u))
       IN  \E k \in 1..Len(u_parts) : WordSearch(u_parts[k], normalize_text(question))

\* the literal loop: the first name, in list order, whose iteration returns
RECURSIVE LiteralTier(_, _)
LiteralTier(question, names) ==
    IF names = <<>> THEN None
    ELSE IF LiteralHit(Head(names), question) THEN Head(names)
    ELSE LiteralTier(question, Tail(names))

\* score > best_score
BetterScore(score, best_score) == FracGT(score, best_score)

\* the fuzzy loop, folding (best_match, best_score) over the names
RECURSIVE FuzzyTier(_, _, _)
FuzzyTier(norm_q, names, best) ==
    IF names = <<>> THEN best
    ELSE LET score == partial_ratio(normalize_text(Head(names)), norm_q)
         IN  FuzzyTier(norm_q, Tail(names),
                 IF BetterScore(score, best.best_score)
                 THEN [best_match |-> Head(names), best_score |-> score]
                 ELSE best)

detect_user_name(question, all_user_names) ==
    LET lit == LiteralTier(question, all_user_names) IN
    IF lit # None THEN lit
    ELSE LET best == FuzzyTier(normalize_text(question), all_user_names,
                               [best_match |-> None, best_score |-> <<0, 1>>])
         IN  IF PassesThreshold(best.best_score) THEN best.best_match ELSE None


\* ------------------------------------------------------------------------
\* Inputs of detect_user_name
\* ------------------------------------------------------------------------
QChars == {"a", "b", "A", " ", "'"}

Questions == UNION {[1..n -> QChars] : n \in 0..MaxQLen}

\* "ab", "A b", "b a", "aab", "abb", "ab" with an accented first letter, "a+"
NamePool ==
    { <<"a", "b">>, <<"A", " ", "b">>, <<"b", " ", "a">>,
      <<"a", "a", "b">>, <<"a", "b", "b">>, <<"a_acute", "b">>, <<"a", "+">> }

\* main.user_names is list(set(...)): the names of a list are pairwise distinct
NameLists ==
    {l \in UNION {[1..n -> NamePool] : n \in 0..MaxNames} :
        \A i, j \in 1..Len(l) : i # j => l[i] # l[j]}

NoCall == [op |-> "none"]

\* no data_cache.pkl on disk
NoCache == [exists |-> FALSE]

\* the caller takes the outcome of the completed call; the next call may start
Return ==
    /\ call # NoCall
    /\ call' = NoCall
    /\ UNCHANGED <<store, dirFiles, phase, messages, user_names, cache>>

\* detect_user_name(question, all_user_names), called on its own
DetectCall ==
    /\ call = NoCall
    /\ \E q \in Questions, names \in NameLists :
         call' = [op |-> "detect", question |-> q, names |-> names,
                  result |-> detect_user_name(q, names)]
    /\ UNCHANGED <<store, dirFiles, phase, messages, user_names, cache>>

InitDetect ==
    /\ store = {}
    /\ dirFiles = FALSE
    /\ phase = "off"
    /\ messages = <<>>
    /\ user_names = <<>>
    /\ cache = NoCache
    /\ call = NoCall

NextDetect == DetectCall \/ Return

SpecDetect == InitDetect /\ [][NextDetect]_vars


\* ------------------------------------------------------------------------
\* Messages of the message source
\* ------------------------------------------------------------------------
DigitChar(n) ==
    CASE n = 0 -> "0" [] n = 1 -> "1" [] n = 2 -> "2" [] n = 3 -> "3" [] n = 4 -> "4"
      [] n = 5 -> "5" [] n = 6 -> "6" [] n = 7 -> "7" [] n = 8 -> "8" [] OTHER -> "9"

\* three members: "A b", "b a", "ab"
UserOf(i) ==
    CASE i % 3 = 1 -> <<"A", " ", "b">>
      [] i % 3 = 2 -> <<"b", " ", "a">>
      [] OTHER     -> <<"a", "b">>

\* message bodies "tNN"; messages 2, 3 and 5 carry the same body (3 under
\* another member than 2, 5 under the same member as 2)
TextOf(i) ==
    LET k == IF i \in {3, 5} THEN 2 ELSE i
    IN  <<"t", DigitChar((k \div 10) % 10), DigitChar(k % 10)>>

\* raw timestamps as the source delivers them: missing, an ISO string ending in
\* "Z" (an instant), an ISO string without offset (a wall-clock time), or text
\* that is no date
RawTimestampOf(i) ==
    CASE i % 5 = 0 -> [kind |-> "none"]
      [] i % 5 = 4 -> [kind |-> "naive_str", t |-> 20]
      [] i = 7     -> [kind |-> "bad_str"]
      [] OTHER     -> [kind |-> "z_str", t |-> 10 * (1 + (i % 3))]

Message(i) ==
    [id |-> i, user_id |-> i % 3, user_name |-> UserOf(i),
     message |-> TextOf(i), timestamp |-> RawTimestampOf(i)]

Pool == [i \in 1..PoolSize |-> Message(i)]

\* the message lists a caller can hold: what the source held at some time (a
\* window of the pool that starts at its first message, or its last messages
\* alone after the older ones were removed)
Datasets ==
    {SubSeq(Pool, 1, hi) : hi \in 0..PoolSize}
    \cup {SubSeq(Pool, lo, PoolSize) : lo \in (PoolSize - 1)..PoolSize}

\* ------------------------------------------------------------------------
\* Embedding model (model.encode) and vector store (collection)
\* ------------------------------------------------------------------------
CharCode(c) ==
    CASE c \in Digits -> (CHOOSE n \in 0..9 : DigitChar(n) = c)
      [] c = "a" -> 11 [] c = "b" -> 12 [] c = "t" -> 13 [] c = "A" -> 14
      [] c = "B" -> 15 [] c = " " -> 16 [] c = "'" -> 17 [] c = ":" -> 18
      [] OTHER -> 19

\* size of the embedding space of the model
EmbRange == 7

RECURSIVE WeightedSum(_, _)
WeightedSum(s, i) ==
    IF i > Len(s) THEN 0 ELSE CharCode(s[i]) * i + WeightedSum(s, i + 1)

\* model.encode(text, normalize_embeddings=True): deterministic in the text
Encode(text) == WeightedSum(text, 1) % EmbRange

\* cosine distance of two embeddings: lower is more similar
Distance(a, b) == IF a >= b THEN a - b ELSE b - a

\* the indexed entry build_index makes of a message
EntryOf(m) ==
    [id |-> m.id, document |-> m.message, embedding |-> Encode(m.message),
     user_name |-> m.user_name, user_id |-> m.user_id, timestamp |-> m.timestamp]

EntriesOf(msgs) == {EntryOf(msgs[i]) : i \in 1..Len(msgs)}

\* collection.count()
Count(coll) == Cardinality(coll)

\* collection.delete(where={"user_name": {"$ne": None}}) when it succeeds
DeleteWhereUserNameNotNone(coll) == {e \in coll : e.user_name = None}

\* a slice that stops one element early
Slice_OneShort(seq, i, batch_size) ==
    SubSeq(seq, i + 1, Min(i + batch_size - 1, Len(seq)))

\* texts[i:i + batch_size] (0-based i) as a sequence
Slice(seq, i, batch_size) == SubSeq(seq, i + 1, Min(i + batch_size, Len(seq)))

\* the loop "for i in range(0, total, batch_size): collection.add(batch)".
\* addExisting is what the store does with an id it already holds: "skip"
\* (keep the stored entry, add the others) or "raise" (the add fails, and the
\* exception leaves build_index)
RECURSIVE AddBatches(_, _, _, _, _)
AddBatches(coll, msgs, i, batch_size, addExisting) ==
    IF i >= Len(msgs) THEN [store |-> coll, outcome |-> "returned"]
    ELSE LET batch == Slice(msgs, i, batch_size)
             have  == {e.id : e \in coll}
             fresh == {EntryOf(batch[k]) : k \in {k \in 1..Len(batch) : batch[k].id \notin have}}
             clash == \E k \in 1..Len(batch) : batch[k].id \in have
         IN  IF clash /\ addExisting = "raise"
             THEN [store |-> coll, outcome |-> "raised"]
             ELSE TheOne({AddBatches(added, msgs, i + batch_size, batch_size, addExisting) :
                             added \in {coll \cup fresh}})

\* build_index(messages, batch_size).  clearOk is the outcome of the delete
\* call: TRUE when it removed the entries, FALSE when it raised (the exception
\* is caught and printed, and the build goes on)
build_index(coll, msgs, batch_size, clearOk, addExisting) ==
    TheOne({AddBatches(cleared, msgs, 0, batch_size, addExisting) :
               cleared \in {IF Count(coll) > 0 /\ clearOk
                            THEN DeleteWhereUserNameNotNone(coll) ELSE coll}})

\* build_index called on its own by the holder of a message list
BuildIndexCall ==
    /\ call = NoCall
    /\ \E msgs \in Datasets, batch_size \in 1..MaxBatch,
          clearOk \in BOOLEAN, addExisting \in {"skip", "raise"} :
         LET r == build_index(store, msgs, batch_size, clearOk, addExisting) IN
         /\ store' = r.store
         /\ call' = [op |-> "build", messages |-> msgs, batch_size |-> batch_size,
                     before |-> store, outcome |-> r.outcome]
    /\ UNCHANGED <<dirFiles, phase, messages, user_names, cache>>

\* ------------------------------------------------------------------------
\* parse_timestamp
\* ------------------------------------------------------------------------
\* datetime.min as an instant: earlier than every instant of a message
MinTimestamp == 0

\* UTC offset of the local time zone of the host, which datetime.timestamp()
\* applies to a datetime without tzinfo
LocalUtcOffset == 1

\* datetime.min.replace(tzinfo=timezone.utc)
MinDatetime == [t |-> MinTimestamp, aware |-> TRUE]

\* a datetime: t is its wall-clock reading, which is the instant itself when the
\* value carries a UTC tzinfo (aware).  A value with another UTC offset is kept
\* as the equal value read in UTC.  Inputs: None, "", a datetime without or with
\* tzinfo, a string ending in "Z", a string with a UTC offset, a string without
\* offset (dateutil returns a datetime without tzinfo), text that is no date.
parse_timestamp(ts) ==
    CASE ts.kind \in {"none", "empty"} -> MinDatetime
      [] ts.kind = "naive_dt"          -> [t |-> ts.t, aware |-> TRUE]
      [] ts.kind = "aware_dt"          -> [t |-> ts.t, aware |-> TRUE]
      [] ts.kind = "z_str"             -> [t |-> ts.t, aware |-> TRUE]
      [] ts.kind = "offset_str"        -> [t |-> ts.t - ts.off, aware |-> TRUE]
      [] ts.kind = "naive_str"         -> [t |-> ts.t, aware |-> FALSE]
      [] OTHER                         -> MinDatetime

\* datetime.timestamp()
Timestamp(dt) == IF dt.aware THEN dt.t ELSE dt.t - LocalUtcOffset

\* x < y on datetimes is defined when both or neither carry a tzinfo; otherwise
\* Python raises TypeError
Comparable(x, y) == x.aware = y.aware

\* wall-clock readings and UTC offsets of the timestamps handed to
\* parse_timestamp; every instant they denote is later than datetime.min
TimeValues == 2..MaxTime

UtcOffsets == {0 - 1, 0, 1}

TimestampInputs ==
    {[kind |-> k] : k \in {"none", "empty", "bad_str"}}
    \cup {[kind |-> k, t |-> t] :
             k \in {"naive_dt", "aware_dt", "z_str", "naive_str"}, t \in TimeValues}
    \cup {[kind |-> "offset_str", t |-> t, off |-> off] :
             t \in TimeValues, off \in UtcOffsets}

\* parse_timestamp called on the timestamps of two items, as step 5 of the
\* retrieval does for every item of a result list
ParseCall ==
    /\ call = NoCall
    /\ \E a \in TimestampInputs, b \in TimestampInputs :
         call' = [op |-> "parse", a |-> a, b |-> b,
                  ra |-> parse_timestamp(a), rb |-> parse_timestamp(b)]
    /\ UNCHANGED <<store, dirFiles, phase, messages, user_names, cache>>

InitParse ==
    /\ store = {}
    /\ dirFiles = TRUE
    /\ phase = "imported"
    /\ messages = <<>>
    /\ user_names = <<>>
    /\ cache = NoCache
    /\ call = NoCall

NextParse == ParseCall \/ Return

SpecParse == InitParse /\ [][NextParse]_vars

\* ------------------------------------------------------------------------
\* collection.query
\* ------------------------------------------------------------------------
\* e is ranked before f for the query embedding q; entries at the same distance
\* come in an order the store chooses (ascending or descending id)
RankedBefore(e, f, q, rev) ==
    LET de == Distance(e.embedding, q)
        df == Distance(f.embedding, q)
    IN  \/ de < df
        \/ de = df /\ (IF rev THEN e.id >= f.id ELSE e.id <= f.id)

\* the n entries of S ranked first, in rank order (all of S when it has fewer)
Nearest(S, q, n, rev) ==
    [i \in 1..Min(n, Cardinality(S)) |->
        CHOOSE e \in S :
            Cardinality({f \in S : f # e /\ RankedBefore(f, e, q, rev)}) = i - 1]

\* entries a where={"user_name": x} filter lets through; None is no filter
Matching(coll, where) ==
    IF where = None THEN coll ELSE {e \in coll : e.user_name = where}

\* collection.query(query_embeddings=[q], n_results=n, where=...): one inner
\* list per query embedding, so the outer lists have exactly one element
QueryResult(hits, q) ==
    [documents |-> << [i \in 1..Len(hits) |-> hits[i].document] >>,
     metadatas |-> << [i \in 1..Len(hits) |->
                        [user_name |-> hits[i].user_name, user_id |-> hits[i].user_id,
                         timestamp |-> hits[i].timestamp]] >>,
     distances |-> << [i \in 1..Len(hits) |-> Distance(hits[i].embedding, q)] >>]

Query(coll, q, n, where, rev) ==
    TheOne({QueryResult(Nearest(matching, qv, n, rev), qv) :
               matching \in {Matching(coll, where)}, qv \in {q}})

\* ------------------------------------------------------------------------
\* retrieve_relevant_messages
\* ------------------------------------------------------------------------
\* docs[: min(len(docs), 12)]
SeedCount == 12

\* final = unique[:10]
FinalCount == 10

RECURSIVE SumEncoded(_, _)
SumEncoded(docs, n) == IF n = 0 THEN 0 ELSE Encode(docs[n]) + SumEncoded(docs, n - 1)

\* np.mean(seed_embs, axis=0)
Centroid(docs) ==
    LET n == Min(Len(docs), SeedCount) IN SumEncoded(docs, n) \div n

\* "not results.get('documents')": the outer list is missing or empty
NoDocuments(results) == Len(results.documents) = 0

\* step 5: one item per (document, metadata, distance) triple
Combine(docs, metas, scores) ==
    [i \in 1..Min(Len(docs), Min(Len(metas), Len(scores))) |->
        [text |-> docs[i], user_name |-> metas[i].user_name, user_id |-> metas[i].user_id,
         timestamp |-> parse_timestamp(metas[i].timestamp), score |-> scores[i]]]

\* a deduplication that keeps every item
Deduplicate_KeepAll(combined, seen) == combined

\* step 6: keep the first item of each text
RECURSIVE Deduplicate(_, _)
Deduplicate(combined, seen) ==
    IF combined = <<>> THEN <<>>
    ELSE LET c == Head(combined) IN
         IF c.text \notin seen
         THEN <<c>> \o Deduplicate(Tail(combined), seen \cup {c.text})
         ELSE Deduplicate(Tail(combined), seen)

\* a sort key whose tie-break puts the larger distance first
KeyLE_FarthestFirst(x, y) ==
    \/ Timestamp(x.timestamp) > Timestamp(y.timestamp)
    \/ Timestamp(x.timestamp) = Timestamp(y.timestamp) /\ x.score >= y.score

\* the sort key (-timestamp, score) of x is at most that of y
KeyLE(x, y) ==
    \/ Timestamp(x.timestamp) > Timestamp(y.timestamp)
    \/ Timestamp(x.timestamp) = Timestamp(y.timestamp) /\ x.score <= y.score

\* list.sort is stable: an item goes behind the items whose key is not larger
RECURSIVE InsertSorted(_, _)
InsertSorted(x, sorted) ==
    IF sorted = <<>> THEN <<x>>
    ELSE IF KeyLE(Head(sorted), x) THEN <<Head(sorted)>> \o InsertSorted(x, Tail(sorted))
    ELSE <<x>> \o sorted

RECURSIVE SortNewestFirst(_, _)
SortNewestFirst(items, n) ==
    IF n = 0 THEN <<>>
    ELSE TheOne({InsertSorted(items[n], sorted) : sorted \in {SortNewestFirst(items, n - 1)}})

RECURSIVE FilterUser(_, _)
FilterUser(items, user_name) ==
    IF items = <<>> THEN <<>>
    ELSE (IF Head(items).user_name = user_name THEN <<Head(items)>> ELSE <<>>)
         \o FilterUser(Tail(items), user_name)

\* steps 2-3: the primary search and the fallback, for an encoded question
SearchEncoded(coll, q_emb, top_k, where, rev) ==
    TheOne({[primary  |-> primary,
             fallback |-> NoDocuments(primary),
             results  |-> IF NoDocuments(primary)
                          THEN Query(coll, q_emb, top_k * 3, None, rev)
                          ELSE primary] :
               primary \in {Query(coll, q_emb, top_k * 3, where, rev)}})

\* steps 1-3: the query embedding, the primary search and the fallback
SearchStep(coll, question, top_k, user_name, rev) ==
    LET q_text == IF Truthy(user_name) THEN user_name \o <<":", " ">> \o question
                  ELSE question
        where  == IF Truthy(user_name) THEN user_name ELSE None
    IN  TheOne({SearchEncoded(coll, q_emb, top_k, where, rev) : q_emb \in {Encode(q_text)}})

\* step 4: the centroid expansion, appended to the primary documents
ExpandStep(coll, top_k, user_name, rev, docs, metas, scores) ==
    IF Len(docs) > 1
    THEN TheOne({[docs   |-> docs \o expand_results.documents[1],
                  metas  |-> metas \o expand_results.metadatas[1],
                  scores |-> scores \o expand_results.distances[1]] :
                    expand_results \in
                        {Query(coll, Centroid(docs), top_k,
                               IF Truthy(user_name) THEN user_name ELSE None, rev)}})
    ELSE [docs |-> docs, metas |-> metas, scores |-> scores]

\* step 8 and the final cut, on the sorted list
FilterStep(sorted, user_name) ==
    TheOne({SubSeq(filtered, 1, Min(Len(filtered), FinalCount)) :
               filtered \in {IF Truthy(user_name) THEN FilterUser(sorted, user_name)
                             ELSE sorted}})

\* steps 6-8 and the final cut
RankStep(combined, user_name) ==
    TheOne({FilterStep(sorted, user_name) :
               sorted \in {SortNewestFirst(unique, Len(unique)) :
                             unique \in {Deduplicate(combined, {})}}})

\* steps 4-8 on the outcome s of the search
AfterSearch(coll, top_k, user_name, rev, s) ==
    TheOne({[primary |-> s.primary.documents, fallback |-> s.fallback,
             seeds |-> Len(s.results.documents[1]),
             combined |-> combined, final |-> RankStep(combined, user_name)] :
               combined \in {Combine(x.docs, x.metas, x.scores) :
                               x \in {ExpandStep(coll, top_k, user_name, rev,
                                                 s.results.documents[1],
                                                 s.results.metadatas[1],
                                                 s.results.distances[1])}}})

\* the whole function; rev is the store's order among equidistant entries.
\* The outcome keeps the intermediate lists next to the returned one.
retrieve_relevant_messages(coll, question, top_k, user_name, rev) ==
    TheOne({AfterSearch(coll, top_k, user_name, rev, s) :
               s \in {SearchStep(coll, question, top_k, user_name, rev)}})

RetrieveQuestions == { <<"a">>, <<"t", "0", "2">>, <<"a", " ", "b">> }

\* user_name arguments: none detected, the empty name, the members, a member
\* without messages
RetrieveUsers ==
    {None, <<>>, <<"A", " ", "b">>, <<"b", " ", "a">>, <<"a", "b">>, <<"B">>}

\* retrieve_relevant_messages(question, top_k, user_name) called on its own
RetrieveCall ==
    /\ call = NoCall
    /\ \E q \in RetrieveQuestions, top_k \in 1..MaxTopK, u \in RetrieveUsers,
          rev \in BOOLEAN :
         LET r == retrieve_relevant_messages(store, q, top_k, u, rev) IN
         call' = [op |-> "retrieve", question |-> q, top_k |-> top_k, user_name |-> u,
                  primary |-> r.primary, fallback |-> r.fallback, seeds |-> r.seeds,
                  combined |-> r.combined, result |-> r.final]
    /\ UNCHANGED <<store, dirFiles, phase, messages, user_names, cache>>

\* the retriever module is imported: the store directory exists and the
\* persistent collection is open; what it holds was left by earlier builds
InitRetriever ==
    /\ store = {}
    /\ dirFiles = TRUE
    /\ phase = "imported"
    /\ messages = <<>>
    /\ user_names = <<>>
    /\ cache = NoCache
    /\ call = NoCall

NextRetriever == BuildIndexCall \/ RetrieveCall \/ Return

SpecRetriever == InitRetriever /\ [][NextRetriever]_vars


\* ------------------------------------------------------------------------
\* The service process (main.py): import, startup_event, /ask, shutdown
\* ------------------------------------------------------------------------
\* build_index(messages, batch_size=150)
DefaultBatchSize == 150

\* retrieve_relevant_messages(question, top_k=5, user_name=user_name) in /ask
AskTopK == 5

\* what the message API holds at the time of a fetch
SourceContents ==
    {SubSeq(Pool, 1, hi) : hi \in {0, 2, 3, PoolSize}} \cup {SubSeq(Pool, 3, 3)}

\* the orders list(set(...)) can give to a set of names
Orderings(S) ==
    {l \in [1..Cardinality(S) -> S] : \A i, j \in 1..Len(l) : i # j => l[i] # l[j]}

\* "from retriever import ...": os.makedirs(CHROMA_PATH, exist_ok=True), then
\* the persistent client and the collection are opened.  Whether the store
\* writes its files into a new directory at once is the store's business; an
\* existing directory keeps its files.  The module globals of main.py start empty.
ImportRetriever ==
    /\ phase = "off"
    /\ phase' = "imported"
    /\ \E written \in BOOLEAN : dirFiles' = (dirFiles \/ written)
    /\ messages' = <<>>
    /\ user_names' = <<>>
    /\ call' = NoCall
    /\ UNCHANGED <<store, cache>>

\* startup_event: load_messages() (the cache when it is fresh and readable,
\* else a fetch that rewrites the cache), the member names, and build_index
\* only when the store directory holds no file.  An exception of the fetch or
\* of the build leaves startup_event.
StartupEvent ==
    /\ phase = "imported"
    /\ \E fresh \in BOOLEAN, fetchOk \in BOOLEAN, fetched \in SourceContents,
          clearOk \in BOOLEAN, addExisting \in {"skip", "raise"} :
         LET useCache == cache.exists /\ fresh
             loaded   == IF useCache THEN cache.messages ELSE fetched
         IN  IF ~useCache /\ ~fetchOk
             THEN /\ phase' = "failed"
                  /\ UNCHANGED <<store, dirFiles, messages, user_names, cache>>
             ELSE LET has_index == dirFiles
                      r == IF has_index THEN [store |-> store, outcome |-> "returned"]
                           ELSE build_index(store, loaded, DefaultBatchSize,
                                            clearOk, addExisting)
                  IN  /\ cache' = [exists |-> TRUE, messages |-> loaded]
                      /\ messages' = loaded
                      /\ \E names \in Orderings({loaded[i].user_name : i \in 1..Len(loaded)}) :
                            user_names' = names
                      /\ store' = r.store
                      /\ dirFiles' = (dirFiles \/ r.store # {})
                      /\ phase' = IF r.outcome = "returned" THEN "ready" ELSE "failed"
    /\ call' = NoCall

AskQuestions == { <<" ">>, <<"a", " ", "b">>, <<"b", "'", "a">>, <<"t">> }

\* sorted(context_messages, key=timestamp) in build_context compares datetimes:
\* a datetime with tzinfo and one without cannot be compared
BuildContextRaises(context) ==
    \E i, j \in 1..Len(context) : context[i].timestamp.aware # context[j].timestamp.aware

\* generate_answer: the fixed sentence without context; an exception of
\* build_context leaves the function; an exception of the model call is caught
\* and answered with the apology sentence
generate_answer(context, llmOk) ==
    IF context = <<>> THEN [raised |-> FALSE, answer |-> "no_information"]
    ELSE IF BuildContextRaises(context) THEN [raised |-> TRUE, answer |-> "none"]
    ELSE IF llmOk THEN [raised |-> FALSE, answer |-> "model_answer"]
    ELSE [raised |-> FALSE, answer |-> "sorry_something_went_wrong"]

\* the rest of the /ask handler once the user is detected and the context
\* retrieved (or the retrieval has raised)
AskRespond(user_name, context, retrievalOk, llmOk) ==
    IF ~retrievalOk
    THEN [status |-> 500, detected_user |-> user_name, answer |-> "none", context |-> <<>>]
    ELSE IF context = <<>>
    THEN [status |-> 200, detected_user |-> user_name,
          answer |-> "not_enough_information", context |-> <<>>]
    ELSE TheOne({IF g.raised
                 THEN [status |-> 500, detected_user |-> user_name, answer |-> "none",
                       context |-> <<>>]
                 ELSE [status |-> 200, detected_user |-> user_name, answer |-> g.answer,
                       context |-> context] :
                    g \in {generate_answer(context, llmOk)}})

\* the /ask handler from the retrieval on, for the detected user
AskDetected(question, user_name, retrievalOk, llmOk, rev) ==
    TheOne({AskRespond(user_name, context, retrievalOk, llmOk) :
               context \in {retrieve_relevant_messages(store, question, AskTopK,
                                                       user_name, rev).final}})

\* the /ask handler.  Every exception raised inside its try block, the
\* HTTPException(400) of a blank question included, is answered with status 500.
ask(question, retrievalOk, llmOk, rev) ==
    IF Strip(question) = <<>>
    THEN [status |-> 500, detected_user |-> None, answer |-> "none", context |-> <<>>]
    ELSE TheOne({AskDetected(question, user_name, retrievalOk, llmOk, rev) :
                    user_name \in {detect_user_name(question, user_names)}})

Ask ==
    /\ phase = "ready"
    /\ call = NoCall
    /\ \E question \in AskQuestions, retrievalOk \in BOOLEAN, llmOk \in BOOLEAN,
          rev \in BOOLEAN :
         call' = [op |-> "ask", question |-> question, retrievalOk |-> retrievalOk,
                  llmOk |-> llmOk, response |-> ask(question, retrievalOk, llmOk, rev)]
    /\ UNCHANGED <<store, dirFiles, phase, messages, user_names, cache>>

\* the process ends; the store directory and the cache file stay on disk
Shutdown ==
    /\ phase # "off"
    /\ phase' = "off"
    /\ messages' = <<>>
    /\ user_names' = <<>>
    /\ call' = NoCall
    /\ UNCHANGED <<store, dirFiles, cache>>

\* a host on which the service was never started
Init ==
    /\ store = {}
    /\ dirFiles = FALSE
    /\ phase = "off"
    /\ messages = <<>>
    /\ user_names = <<>>
    /\ cache = NoCache
    /\ call = NoCall

Next == ImportRetriever \/ StartupEvent \/ Ask \/ Return \/ Shutdown

Spec == Init /\ [][Next]_vars

\* ------------------------------------------------------------------------
\* Claims about detect_user_name (checked under SpecDetect)
\* ------------------------------------------------------------------------
\* the fuzzy score of the i-th name of the completed detect call
FuzzyScoreOf(i) ==
    partial_ratio(normalize_text(call.names[i]), normalize_text(call.question))

\* token occurs in s as a whole word: an occurrence with a word boundary at
\* both of its ends
OccursAsWord(token, s) ==
    \E i \in 1..(Len(s) - Len(token) + 1) :
        /\ SubSeq(s, i, i + Len(token) - 1) = token
        /\ Boundary(s, i)
        /\ Boundary(s, i + Len(token))

\* the literal tier as stated: the full name is a case-insensitive substring of
\* the question, or a token of the normalized name is a whole word of the
\* normalized question
PassesLiteralTier(u, question) ==
    \/ Contains(Lower(u), Lower(question))
    \/ LET toks == Split(normalize_text(u))
       IN  \E k \in 1..Len(toks) : OccursAsWord(toks[k], normalize_text(question))

\* no name of the completed detect call passes the literal tier
NoLiteralHit ==
    \A i \in 1..Len(call.names) : ~PassesLiteralTier(call.names[i], call.question)

\* the positions of the names that are case-insensitive substrings of the question
SubstringNames ==
    {i \in 1..Len(call.names) : Contains(Lower(call.names[i]), Lower(call.question))}

\* C6: if some known name occurs case-insensitively as a substring of the raw
\* question, detect_user_name returns the first name in list order that is such
\* a substring, even when an earlier name shares only a word with the question.
C6_FirstSubstringNameReturned ==
    (call.op = "detect" /\ SubstringNames # {}) =>
        \E i \in SubstringNames :
            /\ call.result = call.names[i]
            /\ \A j \in SubstringNames : i <= j

\* C7: detect_user_name returns None exactly when no name passes the literal tier
\* and every name's fuzzy score is below 70; when the fuzzy tier is reached and
\* the best score is at least 70, it returns the first-listed name among those
\* attaining the best score.
C7_NoneIffNothingMatches ==
    call.op = "detect" =>
        /\ (call.result = None) <=>
               (NoLiteralHit /\ \A i \in 1..Len(call.names) : ~PassesThreshold(FuzzyScoreOf(i)))
        /\ (NoLiteralHit /\ \E i \in 1..Len(call.names) : PassesThreshold(FuzzyScoreOf(i))) =>
               \E i \in 1..Len(call.names) :
                   /\ call.result = call.names[i]
                   /\ \A j \in 1..Len(call.names) : ~FracGT(FuzzyScoreOf(j), FuzzyScoreOf(i))
                   /\ \A j \in 1..(i - 1) : FracGT(FuzzyScoreOf(i), FuzzyScoreOf(j))

\* ------------------------------------------------------------------------
\* Claims about retrieve_relevant_messages and build_index (SpecRetriever)
\* ------------------------------------------------------------------------
\* C1: when retrieve_relevant_messages is called with a non-empty detected
\* user_name, every item of the returned list has that user_name.
C1_OnlyDetectedUser ==
    (call.op = "retrieve" /\ call.user_name # None /\ call.user_name # <<>>) =>
        \A i \in 1..Len(call.result) : call.result[i].user_name = call.user_name

\* a call for a detected user returned items, the centroid expansion contributed
\* to the merged list, and the index holds messages of other members
C1_Witness ==
    /\ call.op = "retrieve"
    /\ call.user_name # None /\ call.user_name # <<>>
    /\ Len(call.result) >= 2
    /\ Len(call.combined) > call.seeds
    /\ \E e \in store : e.user_name # call.user_name

\* C2: the returned list holds no two items with the same text, and each
\* returned item is the first item with its text in the merged sequence
\* (primary results, then centroid-expansion results).
C2_DeduplicatedFirstOccurrence ==
    call.op = "retrieve" =>
        /\ \A i, j \in 1..Len(call.result) :
              i # j => call.result[i].text # call.result[j].text
        /\ \A i \in 1..Len(call.result) :
              \E k \in 1..Len(call.combined) :
                  /\ call.combined[k] = call.result[i]
                  /\ \A m \in 1..(k - 1) : call.combined[m].text # call.result[i].text

\* a returned item whose text occurs again later in the merged sequence, as a
\* different item (another member, or another distance)
C2_Witness ==
    /\ call.op = "retrieve"
    /\ \E i \in 1..Len(call.result) : \E k \in 1..Len(call.combined) :
          /\ call.combined[k].text = call.result[i].text
          /\ call.combined[k] # call.result[i]

\* C3: the returned list is sorted newest first by normalized timestamp and,
\* among equal timestamps, by non-decreasing distance.
C3_NewestFirstThenDistance ==
    call.op = "retrieve" =>
        \A i, j \in 1..Len(call.result) : i < j =>
            LET a == call.result[i]
                b == call.result[j]
            IN  /\ Timestamp(a.timestamp) >= Timestamp(b.timestamp)
                /\ Timestamp(a.timestamp) = Timestamp(b.timestamp) => a.score <= b.score

\* a returned list, cut from a longer one to its maximum length, that holds a
\* strictly newer item before an older one and two items of equal timestamp
\* and different distance
C3_Witness ==
    /\ call.op = "retrieve"
    /\ Len(call.result) = FinalCount
    /\ Len(Deduplicate(call.combined, {})) > FinalCount
    /\ \E i, j \in 1..Len(call.result) :
          Timestamp(call.result[i].timestamp) > Timestamp(call.result[j].timestamp)
    /\ \E i, j \in 1..Len(call.result) :
          /\ Timestamp(call.result[i].timestamp) = Timestamp(call.result[j].timestamp)
          /\ call.result[i].score < call.result[j].score

\* C4: the returned list has at most top_k items.
C4_AtMostTopK == call.op = "retrieve" => Len(call.result) <= call.top_k

\* C5: when the primary search for a detected user returns no documents, an
\* unfiltered query is issued next; when it returns a document, none is issued.
C5_FallbackWhenPrimaryEmpty ==
    (call.op = "retrieve" /\ call.user_name # None /\ call.user_name # <<>>) =>
        (call.fallback <=> \A k \in 1..Len(call.primary) : call.primary[k] = <<>>)

\* C8: build_index on an empty store returns with exactly one entry per message,
\* for every batch size.
C8_BuildOnEmptyStoreAddsEachOnce ==
    (call.op = "build" /\ call.before = {}) =>
        /\ call.outcome = "returned"
        /\ store = EntriesOf(call.messages)
        /\ Cardinality(store) = Len(call.messages)

\* a build on an empty store of more messages than one batch, the last batch
\* shorter than the others
C8_Witness ==
    /\ call.op = "build"
    /\ call.before = {}
    /\ call.outcome = "returned"
    /\ Len(call.messages) > call.batch_size
    /\ Len(call.messages) % call.batch_size # 0
    /\ Cardinality(store) = Len(call.messages)

\* C9: after a build_index call that returned, the index holds exactly the
\* entries of that call's messages, and a query filtered to a member without
\* message in them yields nothing.
C9_RebuildLeavesOnlyLastSet ==
    (call.op = "build" /\ call.outcome = "returned") =>
        /\ store = EntriesOf(call.messages)
        /\ \A u \in RetrieveUsers \ {None} :
              (\A i \in 1..Len(call.messages) : call.messages[i].user_name # u) =>
                  Query(store, 0, PoolSize, u, FALSE).documents[1] = <<>>


\* ------------------------------------------------------------------------
\* Claims about the process lifecycle (checked under Spec)
\* ------------------------------------------------------------------------
\* C10: when startup_event completes, the index entries correspond one-to-one
\* to the loaded messages (the index is rebuilt whenever none existed or the
\* loaded message set differs from the one it was built from).
C10_IndexMatchesLoadedMessages ==
    phase = "ready" => store = EntriesOf(messages)

\* C11: a failed retrieval or a failed answer generation ends in an error
\* outcome: no success response is returned for a request whose retrieval
\* failed, and none carrying an answer made from retrieved context when the
\* language-model call failed.
C11_FailureIsErrorOutcome ==
    call.op = "ask" =>
        /\ call.response.status = 200 => call.retrievalOk
        /\ (call.response.status = 200 /\ call.response.context # <<>>) => call.llmOk

\* ------------------------------------------------------------------------
\* Claims about parse_timestamp (checked under SpecParse)
\* ------------------------------------------------------------------------
\* C12: for every kind of input, parse_timestamp maps None, the empty string
\* and text that is no date to the minimum-timestamp sentinel and returns a
\* value carrying a timezone, so that any two results are comparable and the
\* sentinel sorts last in newest-first order.
C12_TotalAwareComparable ==
    call.op = "parse" =>
        /\ call.a.kind \in {"none", "empty", "bad_str"} => call.ra = MinDatetime
        /\ call.ra.aware /\ call.rb.aware
        /\ Comparable(call.ra, call.rb)
        /\ (call.ra = MinDatetime /\ call.b.kind \notin {"none", "empty", "bad_str"}) =>
               Timestamp(call.rb) > Timestamp(call.ra)


====
